---- MODULE Spec2Model ----
(***************************************************************************)
(* Dueling Double DQN agent (src/agent.py): the agent controller's state   *)
(* (epsilon, counter, the two networks' parameters, the replay buffer) and *)
(* its three operations choose_action, store_transition and learn, and the *)
(* double-Q bootstrapped target that learn computes for a sampled row.     *)
(*                                                                         *)
(* Units.  epsilon, eps_min and eps_dec are fixed-point numbers with 1.0   *)
(* written EpsOne.  Network parameters are abstract values (Thetas); one   *)
(* optimizer step may move the online parameters to any value.  Network    *)
(* outputs are integers; a combined Q-value v + (a - mean(a)) is kept      *)
(* multiplied by NActions, and a bootstrapped target multiplied by         *)
(* NActions * GammaDen, so that the mean and gamma = GammaNum / GammaDen   *)
(* stay exact.                                                             *)
(***************************************************************************)
EXTENDS Integers, FiniteSets, Sequences, TLC

\* ---- bounds of the model
MaxMem == 2
MaxBatch == 2
MaxReplace == 2
MaxDec == 2
MaxStores == 3
MaxLearn == 3
MaxTheta == 1
EpsScale == 3
NActions == 2
MaxOut == 1

\* ---- program constants
GammaNum == 99
GammaDen == 100

EpsOne == EpsScale
Thetas == 0 .. MaxTheta
Actions == 0 .. (NActions - 1)
NetOut == 0 .. MaxOut
Rewards == {-1, 0, 1}

VARIABLES
  constructed,            \* the constructor returned an agent
  mem_size, batch_size, replace_target_count, eps_min, eps_dec,
  epsilon, counter,
  mem_counter, memory,    \* the replay buffer
  q1, q2,                 \* online and target parameters
  last_op,                \* the operation that produced this state
  last_action,            \* what choose_action returned
  q1_hist,                \* history: every value q1 has had
  n_store,                \* history: store_transition calls
  n_ready,                \* history: learn calls made with a full batch stored
  t_pc, t_reward, t_done, t_v_eval, t_a_eval, t_v_t, t_a_t,
  t_max_action, t_q_target

config == <<constructed, mem_size, batch_size, replace_target_count, eps_min, eps_dec>>
agent == <<epsilon, counter, mem_counter, memory, q1, q2>>
history == <<last_op, last_action, q1_hist, n_store, n_ready>>
row == <<t_reward, t_done, t_v_eval, t_a_eval, t_v_t, t_a_t>>
target == <<t_pc, row, t_max_action, t_q_target>>
vars == <<config, agent, history, target>>

Min(a, b) == IF a < b THEN a ELSE b
Max(a, b) == IF a > b THEN a ELSE b

\* ------------------------------------------------------------------------
\* Replay buffer (memory.ReplayBuffer)
\* ------------------------------------------------------------------------

\* The construction-time check of the capacity and the batch size.
ReplayBuffer_init_ok(cap, bs) == cap > 0 /\ bs <= cap

\* The logical occupied size.
Occupied == Min(mem_counter, mem_size)

ReplayBuffer_store_transition_nowrap(t) ==
  /\ memory' = [memory EXCEPT ![Min(mem_counter, mem_size - 1)] = t]
  /\ mem_counter' = mem_counter + 1

\* store_transition: write at mem_counter mod capacity, increment mem_counter.
ReplayBuffer_store_transition(t) ==
  /\ memory' = [memory EXCEPT ![mem_counter % mem_size] = t]
  /\ mem_counter' = mem_counter + 1

\* sample: batch_size distinct indices of the occupied part.
ReplayBuffer_sample ==
  {b \in SUBSET (0 .. (Occupied - 1)) : Cardinality(b) = batch_size}

\* ------------------------------------------------------------------------
\* DuelingDDQNAgent
\* ------------------------------------------------------------------------

decrement_epsilon(e) == Max(eps_min, e - eps_dec)

WarmupGuard_off_by_one == mem_counter < batch_size - 1

\* learn's early return.
WarmupGuard == mem_counter < batch_size

\* learn's test for the hard copy.
SyncDue == counter % replace_target_count = 0

update_target_parameters_post_step(online_now, online_next) == online_next

\* The value q2 takes in the hard copy: q1 as it is when the copy runs.
update_target_parameters(online_now, online_next) == online_now

OptimizerTouchesTarget(target_now, online_next) == online_next

\* The target parameters after q1's optimizer step.
TargetAfterOptimizer(target_now, online_next) == target_now

\* __init__ with the arguments it is given.
Construct ==
  /\ mem_size \in -1 .. MaxMem
  /\ batch_size \in 1 .. MaxBatch
  /\ replace_target_count \in 1 .. MaxReplace
  /\ eps_min \in -1 .. (EpsOne + 1)
  /\ eps_dec \in 1 .. MaxDec
  /\ epsilon = EpsOne
  /\ counter = 0
  /\ constructed = ReplayBuffer_init_ok(mem_size, batch_size)
  /\ mem_counter = 0
  /\ memory = [i \in 0 .. (mem_size - 1) |-> 0]
  /\ IF constructed THEN q1 \in Thetas /\ q2 \in Thetas ELSE q1 = 0 /\ q2 = 0
  /\ q1_hist = {q1}
  /\ last_op = "init"
  /\ last_action = 0
  /\ n_store = 0
  /\ n_ready = 0

TargetIdle ==
  /\ t_pc = "idle"
  /\ t_reward = 0
  /\ t_done = FALSE
  /\ t_v_eval = 0
  /\ t_a_eval = [a \in Actions |-> 0]
  /\ t_v_t = 0
  /\ t_a_t = [a \in Actions |-> 0]
  /\ t_max_action = 0
  /\ t_q_target = 0

Init == Construct /\ TargetIdle

choose_action_decays ==
  /\ constructed
  /\ \E rnd \in 0 .. (EpsOne - 1), greedy \in Actions, random \in Actions :
       last_action' = IF rnd > epsilon THEN greedy ELSE random
  /\ last_op' = "choose_action"
  /\ epsilon' = decrement_epsilon(epsilon)
  /\ UNCHANGED <<config, counter, mem_counter, memory, q1, q2, q1_hist, n_store, n_ready, target>>

choose_action ==
  /\ constructed
  /\ \E rnd \in 0 .. (EpsOne - 1), greedy \in Actions, random \in Actions :
       last_action' = IF rnd > epsilon THEN greedy ELSE random
  /\ last_op' = "choose_action"
  /\ UNCHANGED <<config, agent, q1_hist, n_store, n_ready, target>>

store_transition ==
  /\ constructed
  /\ n_store < MaxStores
  /\ ReplayBuffer_store_transition(n_store + 1)
  /\ n_store' = n_store + 1
  /\ last_op' = "store_transition"
  /\ UNCHANGED <<config, epsilon, counter, q1, q2, last_action, q1_hist, n_ready, target>>

learn ==
  /\ constructed
  /\ n_ready < MaxLearn
  /\ counter < MaxLearn
  /\ last_op' = "learn"
  /\ n_ready' = n_ready + (IF Occupied >= batch_size THEN 1 ELSE 0)
  /\ UNCHANGED <<config, mem_counter, memory, last_action, n_store, target>>
  /\ IF WarmupGuard
       THEN UNCHANGED <<epsilon, counter, q1, q2, q1_hist>>
       ELSE IF ReplayBuffer_sample = {}
         THEN \* sample raises after the hard copy
              /\ q2' = IF SyncDue THEN update_target_parameters(q1, q1) ELSE q2
              /\ UNCHANGED <<epsilon, counter, q1, q1_hist>>
         ELSE \E batch \in ReplayBuffer_sample, stepped \in Thetas :
              /\ q1' = stepped
              /\ q2' = IF SyncDue
                         THEN TargetAfterOptimizer(update_target_parameters(q1, stepped), stepped)
                         ELSE TargetAfterOptimizer(q2, stepped)
              /\ q1_hist' = q1_hist \cup {stepped}
              /\ counter' = counter + 1
              /\ epsilon' = decrement_epsilon(epsilon)

Next == choose_action \/ store_transition \/ learn

Spec == Init /\ [][Next]_vars

\* ------------------------------------------------------------------------
\* The double-Q bootstrapped target of learn, for one row ids[i] of the
\* sampled batch (mean over dim 1, argmax over dim 1, the row mask and the
\* [ids, max_actions] indexing all act on each row by itself).
\* ------------------------------------------------------------------------

RECURSIVE SumUpTo(_, _)
SumUpTo(a, n) == IF n < 0 THEN 0 ELSE a[n] + SumUpTo(a, n - 1)

\* NActions * mean(a).
SumAdv(a) == SumUpTo(a, NActions - 1)

\* torch.add(v, a - a.mean(dim=1)), times NActions.
QCombined(v, a) == [i \in Actions |-> NActions * v + NActions * a[i] - SumAdv(a)]

\* torch.argmax over a row: an index of a maximal entry.
ArgMax(q) == {i \in Actions : \A j \in Actions : q[i] >= q[j]}

max_actions_from_target(q_eval, q_t) == ArgMax(q_t)

\* The action that learn evaluates: argmax of the online network's Q.
max_actions(q_eval, q_t) == ArgMax(q_eval)

ZeroDone_skipped(q, done) == q

\* q_target[dones] = 0.0
ZeroDone(q, done) == IF done THEN [i \in Actions |-> 0] ELSE q

\* rewards + gamma * q_target[ids, max_actions], times NActions * GammaDen.
BootstrapTarget(reward, q, m) == NActions * GammaDen * reward + GammaNum * q[m]

NoAgent ==
  /\ constructed = FALSE
  /\ mem_size = 0
  /\ batch_size = 0
  /\ replace_target_count = 0
  /\ eps_min = 0
  /\ eps_dec = 0
  /\ epsilon = 0
  /\ counter = 0
  /\ mem_counter = 0
  /\ memory = <<>>
  /\ q1 = 0
  /\ q2 = 0
  /\ q1_hist = {}
  /\ last_op = "init"
  /\ last_action = 0
  /\ n_store = 0
  /\ n_ready = 0

\* A sampled row and the two networks' outputs on its next_state.
InitTarget ==
  /\ NoAgent
  /\ t_pc = "sampled"
  /\ t_reward \in Rewards
  /\ t_done \in BOOLEAN
  /\ t_v_eval \in NetOut
  /\ t_a_eval \in [Actions -> NetOut]
  /\ t_v_t \in NetOut
  /\ t_a_t \in [Actions -> NetOut]
  /\ t_max_action = 0
  /\ t_q_target = 0

learn_target ==
  /\ t_pc = "sampled"
  /\ LET q_eval == QCombined(t_v_eval, t_a_eval)
         q_t == ZeroDone(QCombined(t_v_t, t_a_t), t_done)
     IN \E m \in max_actions(q_eval, QCombined(t_v_t, t_a_t)) :
          /\ t_max_action' = m
          /\ t_q_target' = BootstrapTarget(t_reward, q_t, m)
  /\ t_pc' = "computed"
  /\ UNCHANGED <<config, agent, history, row>>

NextTarget == learn_target

SpecTarget == InitTarget /\ [][NextTarget]_vars

\* ------------------------------------------------------------------------
\* Claims
\* ------------------------------------------------------------------------

\* A step that is a learn call past the warmup guard of the code.
LearnPastGuard == last_op' = "learn" /\ mem_counter >= batch_size

\* A step that is a learn call made with at least batch_size transitions held.
LearnReady == last_op' = "learn" /\ Occupied >= batch_size

\* C1: a learn call past the warmup guard leaves the target parameters as
\* they are unless counter mod replace_target_count = 0 on entry, and then
\* sets them to the online parameters as they are on entry (before the
\* optimizer step); no other step changes the target parameters.
C1_TargetFrozenBetweenSyncs ==
  [][ /\ LearnPastGuard =>
           q2' = IF counter % replace_target_count = 0 THEN q1 ELSE q2
      /\ ~LearnPastGuard => q2' = q2 ]_vars

\* A sync, a frozen step and the next sync have run, the online parameters
\* having moved away from the target's in between.
C1_Witness ==
  /\ replace_target_count = 2
  /\ counter = 3
  /\ last_op = "learn"
  /\ q2 # q1
  /\ Cardinality(q1_hist) = 2

C3_EpsilonClosedForm ==
  constructed => epsilon = Max(eps_min, EpsOne - counter * eps_dec)

\* C4 (as claimed): epsilon is never below eps_min and no step increases it.
C4_EpsilonFlooredMonotone ==
  /\ [](constructed => epsilon >= eps_min)
  /\ [][epsilon' <= epsilon]_vars

\* C5: after k stores the occupied size is min(k, capacity) and the slots
\* hold the most recent min(k, capacity) transitions, the k-th stored one at
\* index (k - 1) mod capacity; each store writes at mem_counter mod capacity
\* and adds one to mem_counter.
C5_BufferHoldsMostRecent ==
  /\ [](constructed =>
          /\ Occupied = Min(n_store, mem_size)
          /\ \A k \in 1 .. n_store :
               k > n_store - mem_size => memory[(k - 1) % mem_size] = k
          /\ \A i \in 0 .. (mem_size - 1) :
               i >= n_store => memory[i] = 0)
  /\ [][ last_op' = "store_transition" /\ n_store' = n_store + 1 =>
           /\ mem_counter' = mem_counter + 1
           /\ memory' = [memory EXCEPT ![mem_counter % mem_size] = n_store + 1] ]_vars

\* More transitions were stored than the buffer holds, so the oldest were
\* overwritten.
C5_Witness ==
  /\ constructed
  /\ mem_size = 2
  /\ n_store = 3
  /\ memory[0] = 3
  /\ memory[1] = 2

\* C6: the bootstrapped target of a row whose done flag is set is its reward
\* (here times NActions * GammaDen), whatever the target network returned.
C6_DoneTargetIsReward ==
  (t_pc = "computed" /\ t_done) => t_q_target = NActions * GammaDen * t_reward

\* A done row with a nonzero reward whose target-network Q-value at the
\* chosen action is not zero.
C6_Witness ==
  /\ t_pc = "computed"
  /\ t_done
  /\ t_reward # 0
  /\ NActions * t_v_t + NActions * t_a_t[t_max_action] - SumAdv(t_a_t) # 0

\* C7: for a row that is not done, the chosen action maximises the online
\* network's value + advantage - mean advantage on next_state, and the
\* target is reward + gamma * the target network's combined Q at that action.
C7_DoubleQTarget ==
  (t_pc = "computed" /\ ~t_done) =>
    /\ \A j \in Actions :
         NActions * t_v_eval + NActions * t_a_eval[t_max_action] - SumAdv(t_a_eval)
           >= NActions * t_v_eval + NActions * t_a_eval[j] - SumAdv(t_a_eval)
    /\ t_q_target =
         NActions * GammaDen * t_reward
           + GammaNum * (NActions * t_v_t + NActions * t_a_t[t_max_action] - SumAdv(t_a_t))

\* The online network's best action is not the target network's, and the
\* two networks value it differently.
C7_Witness ==
  /\ t_pc = "computed"
  /\ ~t_done
  /\ \E j \in Actions : t_a_t[j] > t_a_t[t_max_action]
  /\ \E j \in Actions : t_a_eval[j] < t_a_eval[t_max_action]
  /\ t_v_t # t_v_eval

ValidConfig ==
  /\ mem_size > 0
  /\ batch_size <= mem_size
  /\ eps_min >= 0
  /\ eps_min <= EpsOne

\* C8 (as claimed): an agent exists, and operations run on it, only for a
\* valid configuration.
C8_InvalidConfigRejected ==
  (constructed /\ last_op # "init") => ValidConfig

\* C9 (as claimed): the target parameters always equal a value the online
\* parameters had at this or an earlier point of the run.
C9_TargetIsSnapshot ==
  constructed => q2 \in q1_hist

\* C9 (amended): once a learning step has been taken, the target parameters
\* equal a value the online parameters had at this or an earlier point of
\* the run; and a step changes them only as the hard copy of a learn call
\* with counter mod replace_target_count = 0, to the online parameters.
C9_TargetIsSnapshotOnceSynced ==
  /\ [](counter >= 1 => q2 \in q1_hist)
  /\ [][ q2' # q2 =>
           /\ last_op' = "learn"
           /\ counter % replace_target_count = 0
           /\ q2' = q1 ]_vars

\* The target lags: it holds an earlier value of the online parameters.
C9_Witness ==
  /\ counter >= 2
  /\ q2 # q1
  /\ q2 \in q1_hist

\* C10: a learn call made with a batch available adds one to counter and
\* decays epsilon once; every other step leaves both alone, choose_action
\* and store_transition leave the parameters alone too; so counter is the
\* number of learn calls made with a batch available.
C10_BookkeepingOnlyInLearn ==
  /\ [][ /\ LearnReady =>
              /\ counter' = counter + 1
              /\ epsilon' = Max(eps_min, epsilon - eps_dec)
         /\ ~LearnReady => UNCHANGED <<counter, epsilon>>
         /\ last_op' \in {"choose_action", "store_transition"} =>
              UNCHANGED <<q1, q2>> ]_vars
  /\ [](counter = n_ready)

\* The three operations have interleaved: learning steps, then a store,
\* then an action choice.
C10_Witness ==
  /\ counter = 2
  /\ n_store = 3
  /\ last_op = "choose_action"
  /\ epsilon < EpsOne

====
